---- MODULE Spec2Model ----
(***************************************************************************)
(* The window ring of the floating button (src/main.py): grouping of the  *)
(* window snapshot by normalized application name, the radial layout      *)
(* computed by paintEvent, and the pointer / key / timer handlers of      *)
(* WindowRing.                                                             *)
(*                                                                         *)
(* Spec follows a ring from the moment it is shown.  SpecButton follows   *)
(* the button up to that moment: the wmctrl -lx listing parsed by         *)
(* get_windows, show_ring, and the normalizer applied to names.           *)
(*                                                                         *)
(* Strings are sequences of code points, so that lower(), the substring   *)
(* test and sorted() are computed as Python computes them.  Lengths are   *)
(* kept in tenths of a pixel; angles in units of pi/66 (132 units to the  *)
(* circle), which is exact for the hub angles 2*pi*i/n, n dividing 132,   *)
(* and for the spoke offsets, multiples of pi/22.                          *)
(***************************************************************************)
EXTENDS Integers, Sequences, FiniteSets, TLC

\* ------------------------------------------------------------------ bounds
MaxWins == 2        \* windows in the snapshot a ring is opened with
AnimSteps == 2      \* ticks of the animation clock from start to end
MaxLines == 3       \* lines in the output of wmctrl -lx
MaxParts == 2       \* words in an application name
MaxPasses == 3      \* successive applications of _normalize_app_name

\* ----------------------------------------------------------- configuration
RING_SIZE == 800
HUB_RADIUS == 190
SPOKE_LENGTH == 70
NODE_RADIUS == 16
KEYBOARD_NAV == TRUE
HIT_TOLERANCE == 20

\* ------------------------------------------------------------------ strings
S_brave == <<98, 114, 97, 118, 101>>
S_firefox == <<102, 105, 114, 101, 102, 111, 120>>
S_chrome == <<99, 104, 114, 111, 109, 101>>
S_chromium == <<99, 104, 114, 111, 109, 105, 117, 109>>
S_edge == <<101, 100, 103, 101>>
S_code == <<99, 111, 100, 101>>
S_vscode == <<118, 115, 99, 111, 100, 101>>
S_vscodium == <<118, 115, 99, 111, 100, 105, 117, 109>>
S_terminal == <<116, 101, 114, 109, 105, 110, 97, 108>>
S_konsole == <<107, 111, 110, 115, 111, 108, 101>>
S_qterminal == <<113, 116, 101, 114, 109, 105, 110, 97, 108>>
S_gnome_terminal == <<103, 110, 111, 109, 101, 45, 116, 101, 114, 109, 105, 110, 97, 108>>
S_Brave == <<66, 114, 97, 118, 101>>
S_Firefox == <<70, 105, 114, 101, 102, 111, 120>>
S_Chrome == <<67, 104, 114, 111, 109, 101>>
S_Code == <<67, 111, 100, 101>>
S_Terminal == <<84, 101, 114, 109, 105, 110, 97, 108>>
S_Xterm == <<88, 116, 101, 114, 109>>
S_Google_chrome == <<71, 111, 111, 103, 108, 101, 45, 99, 104, 114, 111, 109, 101>>
S_xterm == <<120, 116, 101, 114, 109>>
S_VSCode == <<86, 83, 67, 111, 100, 101>>
S_Files == <<70, 105, 108, 101, 115>>
S_brave_browser ==
  <<98, 114, 97, 118, 101, 45, 98, 114, 111, 119, 115, 101, 114>>
S_pcmanfm_qt == <<112, 99, 109, 97, 110, 102, 109, 45, 113, 116>>
S_pcmanfm_desktop ==
  <<112, 99, 109, 97, 110, 102, 109, 45, 100, 101, 115, 107, 116, 111, 112>>
S_xfdesktop == <<120, 102, 100, 101, 115, 107, 116, 111, 112>>
S_lxqt_panel == <<108, 120, 113, 116, 45, 112, 97, 110, 101, 108>>
S_desktop_window ==
  <<100, 101, 115, 107, 116, 111, 112, 95, 119, 105, 110, 100, 111, 119>>
S_plank == <<112, 108, 97, 110, 107>>
S_cairo_dock == <<99, 97, 105, 114, 111, 45, 100, 111, 99, 107>>
S_conky == <<99, 111, 110, 107, 121>>
S_float == <<102, 108, 111, 97, 116>>
S_floating_button ==
  <<102, 108, 111, 97, 116, 105, 110, 103, 32, 98, 117, 116, 116, 111, 110>>
S_desktop == <<100, 101, 115, 107, 116, 111, 112>>
S_minus_1 == <<45, 49>>

\* str.lower() on ASCII
LowerChar(c) == IF c >= 65 /\ c <= 90 THEN c + 32 ELSE c

Lower(s) == [i \in 1..Len(s) |-> LowerChar(s[i])]

\* Python's  sub in s
Contains(s, sub) ==
  \E k \in 0..(Len(s) - Len(sub)) : \A i \in 1..Len(sub) : s[k + i] = sub[i]

\* Python's  a < b  on str: lexicographic on code points
RECURSIVE StrLess(_, _)
StrLess(a, b) ==
  IF b = <<>> THEN FALSE
  ELSE IF a = <<>> THEN TRUE
  ELSE IF a[1] # b[1] THEN a[1] < b[1]
  ELSE StrLess(Tail(a), Tail(b))

\* a normalizer that returns 'Terminal' for the editors and 'Code' for the
\* terminals
_normalize_app_name_SwappedKeys(app_name) ==
  LET app_lower == Lower(app_name)
      browser == \E x \in {S_chrome, S_chromium, S_brave, S_firefox, S_edge} :
                   Contains(app_lower, x)
  IN  IF browser /\ Contains(app_lower, S_brave) THEN S_Brave
      ELSE IF browser /\ Contains(app_lower, S_firefox) THEN S_Firefox
      ELSE IF browser /\ Contains(app_lower, S_chrome) THEN S_Chrome
      ELSE IF \E x \in {S_code, S_vscode, S_vscodium} : Contains(app_lower, x)
           THEN S_Terminal
      ELSE IF \E x \in {S_terminal, S_konsole, S_qterminal, S_gnome_terminal} :
                Contains(app_lower, x)
           THEN S_Code
      ELSE app_name

\* a normalizer that looks for 'firefox' before 'brave'
_normalize_app_name_FirefoxFirst(app_name) ==
  LET app_lower == Lower(app_name)
      browser == \E x \in {S_chrome, S_chromium, S_brave, S_firefox, S_edge} :
                   Contains(app_lower, x)
  IN  IF browser /\ Contains(app_lower, S_firefox) THEN S_Firefox
      ELSE IF browser /\ Contains(app_lower, S_brave) THEN S_Brave
      ELSE IF browser /\ Contains(app_lower, S_chrome) THEN S_Chrome
      ELSE IF \E x \in {S_code, S_vscode, S_vscodium} : Contains(app_lower, x)
           THEN S_Code
      ELSE IF \E x \in {S_terminal, S_konsole, S_qterminal, S_gnome_terminal} :
                Contains(app_lower, x)
           THEN S_Terminal
      ELSE app_name

\* WindowRing._normalize_app_name
_normalize_app_name(app_name) ==
  LET app_lower == Lower(app_name)
      browser == \E x \in {S_chrome, S_chromium, S_brave, S_firefox, S_edge} :
                   Contains(app_lower, x)
  IN  IF browser /\ Contains(app_lower, S_brave) THEN S_Brave
      ELSE IF browser /\ Contains(app_lower, S_firefox) THEN S_Firefox
      ELSE IF browser /\ Contains(app_lower, S_chrome) THEN S_Chrome
      ELSE IF \E x \in {S_code, S_vscode, S_vscodium} : Contains(app_lower, x)
           THEN S_Code
      ELSE IF \E x \in {S_terminal, S_konsole, S_qterminal, S_gnome_terminal} :
                Contains(app_lower, x)
           THEN S_Terminal
      ELSE app_name

\* ----------------------------------------------------------------- grouping
RECURSIVE GroupFrom(_, _, _)
\* a grouping loop that puts each window at the front of its bucket
GroupFrom_Prepends(ws, i, g) ==
  IF i > Len(ws) THEN g
  ELSE LET app_key == _normalize_app_name(ws[i].app)
           bucket == IF app_key \in DOMAIN g THEN g[app_key] ELSE <<>>
       IN  GroupFrom(ws, i + 1,
             [k \in (DOMAIN g) \cup {app_key} |->
                IF k = app_key THEN <<ws[i]>> \o bucket ELSE g[k]])

\* the loop of WindowRing.__init__ over the snapshot, from entry i on;
\* g is the defaultdict(list) built so far
GroupFrom(ws, i, g) ==
  IF i > Len(ws) THEN g
  ELSE LET app_key == _normalize_app_name(ws[i].app)
           bucket == IF app_key \in DOMAIN g THEN g[app_key] ELSE <<>>
       IN  GroupFrom(ws, i + 1,
             [k \in (DOMAIN g) \cup {app_key} |->
                IF k = app_key THEN Append(bucket, ws[i]) ELSE g[k]])

EmptyGroups == [k \in {} |-> <<>>]

Groups(ws) == GroupFrom(ws, 1, EmptyGroups)

\* ------------------------------------------------------------ window listing
\* str.upper() on ASCII
UpperChar(c) == IF c >= 97 /\ c <= 122 THEN c - 32 ELSE c

\* str.capitalize()
Capitalize(s) ==
  [i \in 1..Len(s) |-> IF i = 1 THEN UpperChar(s[i]) ELSE LowerChar(s[i])]

\* the characters for which str.isspace() holds (ASCII)
WhiteSpace == {9, 10, 11, 12, 13, 28, 29, 30, 31, 32}

IsSpace(c) == c \in WhiteSpace

RECURSIVE LStrip(_)
LStrip(s) == IF s # <<>> /\ IsSpace(s[1]) THEN LStrip(Tail(s)) ELSE s

RECURSIVE RStrip(_)
RStrip(s) ==
  IF s # <<>> /\ IsSpace(s[Len(s)]) THEN RStrip(SubSeq(s, 1, Len(s) - 1))
  ELSE s

\* str.strip()
Strip(s) == RStrip(LStrip(s))

\* the characters of s before its first character in seps
RECURSIVE Before(_, _)
Before(s, seps) ==
  IF s = <<>> \/ s[1] \in seps THEN <<>>
  ELSE <<s[1]>> \o Before(Tail(s), seps)

\* str.split(sep) for a one-character sep
RECURSIVE SplitOn(_, _)
SplitOn(s, sep) ==
  LET head == Before(s, {sep})
  IN  IF Len(head) = Len(s) THEN <<s>>
      ELSE <<head>> \o SplitOn(SubSeq(s, Len(head) + 2, Len(s)), sep)

\* str.split(None, maxsplit)
RECURSIVE SplitNone(_, _)
SplitNone(s, maxsplit) ==
  LET rest == LStrip(s)
      word == Before(rest, WhiteSpace)
  IN  IF rest = <<>> THEN <<>>
      ELSE IF maxsplit = 0 THEN <<rest>>
      ELSE <<word>> \o
           SplitNone(SubSeq(rest, Len(word) + 1, Len(rest)), maxsplit - 1)

ignore_classes ==
  {S_pcmanfm_desktop, S_xfdesktop, S_lxqt_panel, S_desktop_window, S_plank,
   S_cairo_dock, S_conky}

ignore_titles == {S_float, S_floating_button, S_desktop}

\* app_map.get(win_class, app_name)
app_map(win_class, app_name) ==
  IF win_class = S_brave_browser THEN S_Brave
  ELSE IF win_class = S_code THEN S_VSCode
  ELSE IF win_class = S_qterminal THEN S_Terminal
  ELSE IF win_class = S_pcmanfm_qt THEN S_Files
  ELSE app_name

\* a listing loop that stops at the first entry with too few fields
RECURSIVE WindowsFrom(_, _, _)
WindowsFrom_StopsAtShort(lines, i, windows) ==
  IF i > Len(lines) THEN windows
  ELSE LET line == lines[i]
           parts == SplitNone(line, 4)
       IN  IF Strip(line) = <<>> THEN WindowsFrom(lines, i + 1, windows)
           ELSE IF Len(parts) < 5 THEN windows
           ELSE LET win_id == parts[1]
                    desktop == parts[2]
                    win_class == Lower(SplitOn(parts[3], 46)[1])
                    title == parts[5]
                IN  IF \/ desktop = S_minus_1
                       \/ \E ign \in ignore_classes : Contains(win_class, ign)
                       \/ \E ign \in ignore_titles : Contains(Lower(title), ign)
                       \/ Strip(title) = <<>>
                    THEN WindowsFrom(lines, i + 1, windows)
                    ELSE WindowsFrom(lines, i + 1,
                           Append(windows,
                                  [id |-> win_id,
                                   app |-> app_map(win_class, Capitalize(win_class)),
                                   title |-> Strip(title)]))

\* the loop of FloatingButton.get_windows over the lines of the output,
\* from line i on; windows is the list built so far
WindowsFrom(lines, i, windows) ==
  IF i > Len(lines) THEN windows
  ELSE LET line == lines[i]
           parts == SplitNone(line, 4)
       IN  IF Strip(line) = <<>> THEN WindowsFrom(lines, i + 1, windows)
           ELSE IF Len(parts) < 5 THEN WindowsFrom(lines, i + 1, windows)
           ELSE LET win_id == parts[1]
                    desktop == parts[2]
                    win_class == Lower(SplitOn(parts[3], 46)[1])
                    title == parts[5]
                IN  IF \/ desktop = S_minus_1
                       \/ \E ign \in ignore_classes : Contains(win_class, ign)
                       \/ \E ign \in ignore_titles : Contains(Lower(title), ign)
                       \/ Strip(title) = <<>>
                    THEN WindowsFrom(lines, i + 1, windows)
                    ELSE WindowsFrom(lines, i + 1,
                           Append(windows,
                                  [id |-> win_id,
                                   app |-> app_map(win_class, Capitalize(win_class)),
                                   title |-> Strip(title)]))

\* FloatingButton.get_windows; result is how subprocess.run(["wmctrl",
\* "-lx"], timeout=2) ended: kind "ok" with its stdout, "raise" or "timeout"
get_windows(result) ==
  IF result.kind = "ok"
  THEN WindowsFrom(SplitOn(Strip(result.stdout), 10), 1, <<>>)
  ELSE <<>>

\* the keys in descending order, as sorted(..., reverse=True) gives them
RECURSIVE SortedKeys_Reversed(_)
SortedKeys_Reversed(K) ==
  IF K = {} THEN <<>>
  ELSE LET m == CHOOSE x \in K : \A y \in K \ {x} : StrLess(y, x)
       IN  <<m>> \o SortedKeys_Reversed(K \ {m})

\* sorted(self.groups.keys())
RECURSIVE SortedKeys(_)
SortedKeys(K) ==
  IF K = {} THEN <<>>
  ELSE LET m == CHOOSE x \in K : \A y \in K \ {x} : StrLess(x, y)
       IN  <<m>> \o SortedKeys(K \ {m})

\* ------------------------------------------------------------- trigonometry
\* 1000 * cos(k * pi / 66), k = 0 .. 33
CosTable ==
  <<1000, 999, 995, 990, 982, 972, 959, 945, 928, 910, 889, 866, 841, 815,
    786, 756, 724, 690, 655, 618, 580, 541, 500, 458, 415, 372, 327, 282,
    236, 189, 142, 95, 48, 0>>

Cos1000(a) ==
  LET k == a % 132
  IN  IF k <= 33 THEN CosTable[k + 1]
      ELSE IF k <= 66 THEN 0 - CosTable[66 - k + 1]
      ELSE IF k <= 99 THEN 0 - CosTable[k - 66 + 1]
      ELSE CosTable[132 - k + 1]

Sin1000(a) == Cos1000(a - 33)

\* ---------------------------------------------------------------- animation
\* progress is a fraction with denominator ProgDen
ProgDen == AnimSteps * AnimSteps * AnimSteps

\* QEasingCurve.OutCubic at t / AnimSteps:  1 - (1 - t/AnimSteps)^3
OutCubic(t) == ProgDen - (AnimSteps - t) * (AnimSteps - t) * (AnimSteps - t)

\* the anim_progress setter:  max(0.0, min(1.0, val))
ClampProgress(val) ==
  LET lo == IF val < ProgDen THEN val ELSE ProgDen
  IN  IF lo > 0 THEN lo ELSE 0

\* ------------------------------------------------------------------- layout
None == "None"

\* bool(x) of an optional window id; ids are non-empty strings
Truthy(x) == x # None

CenterX == (RING_SIZE * 10) \div 2
CenterY == (RING_SIZE * 10) \div 2

\* the (i, j, num_wins, win) visited by the nested loops of paintEvent,
\* app names from position i (0-based) of app_names on
RECURSIVE LayoutEntries(_, _, _)
LayoutEntries(g, app_names, i) ==
  IF i >= Len(app_names) THEN <<>>
  ELSE LET wins == g[app_names[i + 1]]
       IN  [j \in 1..Len(wins) |->
              [i |-> i, j |-> j - 1, num_wins |-> Len(wins), win |-> wins[j]]]
           \o LayoutEntries(g, app_names, i + 1)

\* radius = NODE_RADIUS * prog, times 1.6 when hovered or selected
NodeRadius(prog, enlarged) ==
  IF enlarged THEN (NODE_RADIUS * 16 * prog) \div ProgDen
  ELSE (NODE_RADIUS * 10 * prog) \div ProgDen

\* one (center, radius, win) of node_positions
LayoutNode(e, num_apps, flat_idx, prog, hover, selected) ==
  LET angle == (132 * e.i) \div num_apps - 33
      spoke_off == IF e.num_wins > 1 THEN (2 * e.j - (e.num_wins - 1)) * 3 ELSE 0
      total_angle == angle + spoke_off
      is_hovered == hover = e.win.id
      is_selected == selected = flat_idx
  IN  [x |-> CenterX + (HUB_RADIUS * prog * Cos1000(angle)
                        + SPOKE_LENGTH * prog * Cos1000(total_angle))
                       \div (100 * ProgDen),
       y |-> CenterY + (HUB_RADIUS * prog * Sin1000(angle)
                        + SPOKE_LENGTH * prog * Sin1000(total_angle))
                       \div (100 * ProgDen),
       radius |-> NodeRadius(prog, is_hovered \/ is_selected),
       win |-> e.win]

\* node_positions as paintEvent rebuilds it
Layout(g, prog, hover, selected) ==
  LET app_names == SortedKeys(DOMAIN g)
      es == LayoutEntries(g, app_names, 0)
  IN  [f \in 1..Len(es) |->
         LayoutNode(es[f], Len(app_names), f - 1, prog, hover, selected)]

\* ------------------------------------------------------------- hit testing
\* dist < radius + 20, compared on the squares
NodeHit(node, pos) ==
  LET dx == pos[1] * 10 - node.x
      dy == pos[2] * 10 - node.y
      reach == node.radius + HIT_TOLERANCE * 10
  IN  dx * dx + dy * dy < reach * reach

\* the loop without its break: the last node hit wins
HitIndex_NoBreak(nodes, pos) ==
  LET hits == {idx \in 0..(Len(nodes) - 1) : NodeHit(nodes[idx + 1], pos)}
  IN  IF hits = {} THEN -1
      ELSE CHOOSE idx \in hits : \A other \in hits : idx >= other

\* the loop of mouseMoveEvent: index of the first node hit, -1 when none
HitIndex(nodes, pos) ==
  LET hits == {idx \in 0..(Len(nodes) - 1) : NodeHit(nodes[idx + 1], pos)}
  IN  IF hits = {} THEN -1
      ELSE CHOOSE idx \in hits : \A other \in hits : idx <= other

HitId(nodes, pos) ==
  IF HitIndex(nodes, pos) = -1 THEN None
  ELSE nodes[HitIndex(nodes, pos) + 1].win.id

\* -------------------------------------------------------------------- inputs
WinIds == <<"0x01400001", "0x01400002", "0x01400003", "0x01400004">>

\* raw class names as FloatingButton.get_windows passes them on
AppNames == {S_Firefox, S_Google_chrome, S_Xterm}

\* the snapshots FloatingButton.show_ring opens a ring with: non-empty, the
\* ids of wmctrl distinct
Snapshots ==
  UNION {[1..n -> AppNames] : n \in 1..MaxWins}

Windows(apps) ==
  [k \in 1..Len(apps) |-> [id |-> WinIds[k], app |-> apps[k], title |-> apps[k]]]

\* the three windows of the specification's grouping scenario (a Firefox, a
\* Brave and a second Firefox window), named as get_windows names them
ExampleSnapshot == Windows(<<S_Firefox, S_Brave, S_Firefox>>)

\* the windows argument of WindowRing.__init__
RingSnapshots == {Windows(apps) : apps \in Snapshots} \cup {ExampleSnapshot}

\* event.position(), widget pixels
PointerPositions ==
  {<<400, 400>>, <<400, 140>>, <<400, 180>>, <<400, 660>>, <<0, 0>>}

Buttons == {"LeftButton", "RightButton"}

NextKeys == {"Key_Tab", "Key_Right", "Key_Down"}
PrevKeys == {"Key_Backtab", "Key_Left", "Key_Up"}
ConfirmKeys == {"Key_Return", "Key_Space"}
Keys == {"Key_Escape", "Key_A"} \cup NextKeys \cup PrevKeys \cup ConfirmKeys

\* lines of wmctrl -lx: id, desktop, instance.class, host, title
\* "0x01400001  0 firefox.Firefox  host Mozilla Firefox"
Line_firefox_1 ==
  <<48, 120, 48, 49, 52, 48, 48, 48, 48, 49, 32, 32, 48, 32, 102, 105, 114,
    101, 102, 111, 120, 46, 70, 105, 114, 101, 102, 111, 120, 32, 32, 104,
    111, 115, 116, 32, 77, 111, 122, 105, 108, 108, 97, 32, 70, 105, 114,
    101, 102, 111, 120>>
\* "0x01400002  0 brave-browser.Brave-browser  host Brave"
Line_brave ==
  <<48, 120, 48, 49, 52, 48, 48, 48, 48, 50, 32, 32, 48, 32, 98, 114, 97,
    118, 101, 45, 98, 114, 111, 119, 115, 101, 114, 46, 66, 114, 97, 118,
    101, 45, 98, 114, 111, 119, 115, 101, 114, 32, 32, 104, 111, 115, 116,
    32, 66, 114, 97, 118, 101>>
\* "0x01400003  1 firefox.Firefox  host  Docs - Mozilla Firefox "
Line_firefox_2 ==
  <<48, 120, 48, 49, 52, 48, 48, 48, 48, 51, 32, 32, 49, 32, 102, 105, 114,
    101, 102, 111, 120, 46, 70, 105, 114, 101, 102, 111, 120, 32, 32, 104,
    111, 115, 116, 32, 32, 68, 111, 99, 115, 32, 45, 32, 77, 111, 122, 105,
    108, 108, 97, 32, 70, 105, 114, 101, 102, 111, 120, 32>>
\* "0x01400004  0 xterm.XTerm  host xterm"
Line_xterm ==
  <<48, 120, 48, 49, 52, 48, 48, 48, 48, 52, 32, 32, 48, 32, 120, 116, 101,
    114, 109, 46, 88, 84, 101, 114, 109, 32, 32, 104, 111, 115, 116, 32, 120,
    116, 101, 114, 109>>
\* "0x01400005  0 xterm.XTerm  host"
Line_no_title ==
  <<48, 120, 48, 49, 52, 48, 48, 48, 48, 53, 32, 32, 48, 32, 120, 116, 101,
    114, 109, 46, 88, 84, 101, 114, 109, 32, 32, 104, 111, 115, 116>>
\* "0x01400006  0 xterm.XTerm  host   "
Line_blank_title ==
  <<48, 120, 48, 49, 52, 48, 48, 48, 48, 54, 32, 32, 48, 32, 120, 116, 101,
    114, 109, 46, 88, 84, 101, 114, 109, 32, 32, 104, 111, 115, 116, 32, 32,
    32>>
\* "0x01400007  0 lxqt-panel.lxqt-panel  host Panel"
Line_panel ==
  <<48, 120, 48, 49, 52, 48, 48, 48, 48, 55, 32, 32, 48, 32, 108, 120, 113,
    116, 45, 112, 97, 110, 101, 108, 46, 108, 120, 113, 116, 45, 112, 97,
    110, 101, 108, 32, 32, 104, 111, 115, 116, 32, 80, 97, 110, 101, 108>>
\* "0x01400008  0 python3.python3  host Floating Button"
Line_button ==
  <<48, 120, 48, 49, 52, 48, 48, 48, 48, 56, 32, 32, 48, 32, 112, 121, 116,
    104, 111, 110, 51, 46, 112, 121, 116, 104, 111, 110, 51, 32, 32, 104,
    111, 115, 116, 32, 70, 108, 111, 97, 116, 105, 110, 103, 32, 66, 117,
    116, 116, 111, 110>>
\* "0x01400009 -1 xclock.XClock  host xclock"
Line_sticky ==
  <<48, 120, 48, 49, 52, 48, 48, 48, 48, 57, 32, 45, 49, 32, 120, 99, 108,
    111, 99, 107, 46, 88, 67, 108, 111, 99, 107, 32, 32, 104, 111, 115, 116,
    32, 120, 99, 108, 111, 99, 107>>
\* ""
Line_empty == <<>>

Lines ==
  {Line_firefox_1, Line_brave, Line_firefox_2, Line_xterm, Line_no_title,
   Line_blank_title, Line_panel, Line_button, Line_sticky, Line_empty}

\* the windows the window manager lists: up to MaxLines different lines
Listings ==
  {l \in UNION {[1..n -> Lines] : n \in 0..MaxLines} :
     \A i, j \in 1..Len(l) : i # j => l[i] # l[j]}

\* the text wmctrl prints for a listing: each line ended by a newline
RECURSIVE Stdout(_)
Stdout(l) == IF l = <<>> THEN <<>> ELSE Head(l) \o <<10>> \o Stdout(Tail(l))

\* how subprocess.run(["wmctrl", "-lx"], timeout=2) can end
ListingCalls ==
  {[kind |-> "ok", lines |-> l] : l \in Listings}
    \cup {[kind |-> "raise", lines |-> <<>>], [kind |-> "timeout", lines |-> <<>>]}

NoCall == [kind |-> "none", lines |-> <<>>]

\* the words application names are made of
NameParts ==
  {S_brave, S_firefox, S_chrome, S_chromium, S_edge, S_code, S_vscodium,
   S_terminal, S_konsole, S_qterminal, S_xterm}

RECURSIVE JoinDash(_)
JoinDash(parts) ==
  IF Len(parts) = 1 THEN parts[1]
  ELSE parts[1] \o <<45>> \o JoinDash(Tail(parts))

\* application names as get_windows makes them: a capitalized window class
\* of up to MaxParts words, or a value of app_map
RawNames ==
  {Capitalize(JoinDash(parts)) :
     parts \in UNION {[1..n -> NameParts] : n \in 1..MaxParts}}
    \cup {S_Brave, S_VSCode, S_Terminal, S_Files}

\* how a subprocess.run returns: normally, by raising, or (without a
\* timeout argument) not at all
PeekOutcomes == {"ok", "raise"}
ActivateOutcomes == {"ok", "raise", "hang"}

\* --------------------------------------------------------------------- state
VARIABLES
  wmctrl_lx,        \* how the wmctrl -lx call of get_windows ends
  wins,             \* wins in show_ring: the windows the ring is made of
  app_name,         \* a raw application name given to _normalize_app_name
  app_keys,         \* what _normalize_app_name returned, applied again and again
  groups,           \* self.groups
  peek_enabled,     \* CONFIG["PEEK_ENABLED"]
  anim_time,        \* position of self.anim on its timeline, 0..AnimSteps
  anim_progress,    \* self._anim_progress, numerator over ProgDen
  hover_win_id,     \* self.hover_win_id
  selected_index,   \* self.selected_index
  node_positions,   \* self.node_positions
  flat_windows,     \* self.flat_windows
  peek_timer,       \* self.peek_timer.isActive()
  pending_peek_id,  \* self.pending_peek_id
  visible,          \* the widget is shown; close() hides it
  blocked,          \* the event thread waits in a subprocess.run
  requests,         \* the wmctrl -i -a calls made by the handler of last_event
  last_event,       \* the event the event loop dispatched last
  hover_left        \* the hover has left pending_peek_id since the timer was armed

button_vars == <<wmctrl_lx, wins, app_name, app_keys>>

\* the state of the WindowRing widget
ring_vars ==
  <<groups, anim_time, anim_progress, hover_win_id, selected_index,
    node_positions, flat_windows, peek_timer, pending_peek_id, visible,
    blocked, requests>>

vars ==
  <<button_vars, groups, peek_enabled, anim_time, anim_progress, hover_win_id,
    selected_index, node_positions, flat_windows, peek_timer, pending_peek_id,
    visible, blocked, requests, last_event, hover_left>>

Event(type, arg, call) == [type |-> type, arg |-> arg, call |-> call]

Request(cmd, id) == [cmd |-> cmd, id |-> id]

\* WindowRing.__init__ followed by show()
Init ==
  /\ wmctrl_lx = NoCall
  /\ wins \in RingSnapshots
  /\ app_name = <<>>
  /\ app_keys = <<>>
  /\ groups = Groups(wins)
  /\ peek_enabled \in BOOLEAN
  /\ anim_time = 0
  /\ anim_progress = 0
  /\ hover_win_id = None
  /\ selected_index = -1
  /\ node_positions = <<>>
  /\ flat_windows = <<>>
  /\ peek_timer = FALSE
  /\ pending_peek_id = None
  /\ visible = TRUE
  /\ blocked = FALSE
  /\ requests = <<>>
  /\ last_event = Event("init", "-", "-")
  /\ hover_left = FALSE

\* a close() that leaves the widget shown
close_Ignored == visible' = visible

\* QWidget.close(): the widget is hidden; nothing else of the ring changes
close == visible' = FALSE

\* a tick of self.anim: the anim_progress setter.  The animation is started
\* in __init__ and nothing stops it, so it also ticks on a hidden ring.
AnimTick ==
  /\ ~blocked
  /\ anim_time < AnimSteps
  /\ anim_time' = anim_time + 1
  /\ anim_progress' = ClampProgress(OutCubic(anim_time + 1))
  /\ requests' = <<>>
  /\ last_event' = Event("anim", "-", "-")
  /\ UNCHANGED <<button_vars, groups, peek_enabled, hover_win_id, selected_index,
                 node_positions, flat_windows, peek_timer, pending_peek_id,
                 visible, blocked, hover_left>>

\* WindowRing.paintEvent: the part that rebuilds the layout.  Qt paints, and
\* delivers pointer and key events to, a shown widget only; update() merely
\* schedules the paint, so other events may come before it.
paintEvent ==
  /\ ~blocked
  /\ visible
  /\ LET nodes == Layout(groups, anim_progress, hover_win_id, selected_index)
     IN  /\ node_positions' = nodes
         /\ flat_windows' = [f \in 1..Len(nodes) |-> nodes[f].win]
  /\ requests' = <<>>
  /\ last_event' = Event("paint", "-", "-")
  /\ UNCHANGED <<button_vars, groups, peek_enabled, anim_time, anim_progress, hover_win_id,
                 selected_index, peek_timer, pending_peek_id, visible, blocked,
                 hover_left>>

\* a delayed peek that forgets self.peek_timer.stop()
DelayedPeek_NoStop(new_hover_id) ==
  IF Truthy(new_hover_id) /\ peek_enabled
  THEN /\ pending_peek_id' = new_hover_id
       /\ peek_timer' = TRUE
       /\ hover_left' = FALSE
  ELSE UNCHANGED <<pending_peek_id, peek_timer, hover_left>>

\* the "Delayed peek" block of mouseMoveEvent: stop the timer, then start it
\* for the new hover
DelayedPeek(new_hover_id) ==
  IF Truthy(new_hover_id) /\ peek_enabled
  THEN /\ pending_peek_id' = new_hover_id
       /\ peek_timer' = TRUE
       /\ hover_left' = FALSE
  ELSE /\ pending_peek_id' = pending_peek_id
       /\ peek_timer' = FALSE
       /\ hover_left' = FALSE

\* a pointer move that runs the "Delayed peek" block whether or not the
\* hover has changed
mouseMoveEvent_AlwaysRearms(pos) ==
  /\ ~blocked
  /\ visible
  /\ LET new_selected == HitIndex(node_positions, pos)
         new_hover_id == HitId(node_positions, pos)
     IN  /\ hover_win_id' = new_hover_id
         /\ selected_index' = new_selected
         /\ DelayedPeek(new_hover_id)
  /\ requests' = <<>>
  /\ last_event' = Event("move", pos, "-")
  /\ UNCHANGED <<button_vars, groups, peek_enabled, anim_time, anim_progress,
                 node_positions, flat_windows, visible, blocked>>

\* a pointer move that updates the hover but not the selected index
mouseMoveEvent_KeepsIndex(pos) ==
  /\ ~blocked
  /\ visible
  /\ LET new_hover_id == HitId(node_positions, pos)
     IN  IF new_hover_id # hover_win_id
         THEN /\ hover_win_id' = new_hover_id
              /\ selected_index' = selected_index
              /\ DelayedPeek(new_hover_id)
         ELSE UNCHANGED <<hover_win_id, selected_index, pending_peek_id,
                          peek_timer, hover_left>>
  /\ requests' = <<>>
  /\ last_event' = Event("move", pos, "-")
  /\ UNCHANGED <<button_vars, groups, peek_enabled, anim_time, anim_progress,
                 node_positions, flat_windows, visible, blocked>>

\* WindowRing.mouseMoveEvent
mouseMoveEvent(pos) ==
  /\ ~blocked
  /\ visible
  /\ LET new_selected == HitIndex(node_positions, pos)
         new_hover_id == HitId(node_positions, pos)
     IN  IF new_hover_id # hover_win_id
         THEN /\ hover_win_id' = new_hover_id
              /\ selected_index' = new_selected
              /\ DelayedPeek(new_hover_id)
         ELSE UNCHANGED <<hover_win_id, selected_index, pending_peek_id,
                          peek_timer, hover_left>>
  /\ requests' = <<>>
  /\ last_event' = Event("move", pos, "-")
  /\ UNCHANGED <<button_vars, groups, peek_enabled, anim_time, anim_progress,
                 node_positions, flat_windows, visible, blocked>>

\* expiry of self.peek_timer: WindowRing._do_peek.  The single-shot timer
\* belongs to the ring object, not to its window: it fires whether or not the
\* ring is shown.  A failing or timed-out call is caught by the bare except.
_do_peek(outcome) ==
  /\ ~blocked
  /\ peek_timer
  /\ peek_timer' = FALSE
  /\ hover_left' = FALSE
  /\ IF Truthy(pending_peek_id)
     THEN /\ requests' = <<Request("peek", pending_peek_id)>>
          /\ last_event' = Event("timeout", "-", outcome)
     ELSE /\ requests' = <<>>
          /\ last_event' = Event("timeout", "-", "-")
  /\ UNCHANGED <<button_vars, groups, peek_enabled, anim_time, anim_progress, hover_win_id,
                 selected_index, node_positions, flat_windows, pending_peek_id,
                 visible, blocked>>

\* subprocess.run(["wmctrl", "-i", "-a", self.hover_win_id]) followed by
\* self.close(), as in mousePressEvent and keyPressEvent: no try, no timeout.
\* An exception leaves the handler before close(); a call that does not
\* return keeps the event thread.
ActivateAndClose(outcome) ==
  /\ requests' = <<Request("activate", hover_win_id)>>
  /\ visible' = (IF outcome = "ok" THEN FALSE ELSE visible)
  /\ blocked' = (outcome = "hang")

\* a press handler that activates without looking at self.hover_win_id
mousePressEvent_NoHoverCheck(button, outcome) ==
  /\ ~blocked
  /\ visible
  /\ IF button = "LeftButton"
     THEN /\ ActivateAndClose(outcome)
          /\ last_event' = Event("press", button, outcome)
     ELSE /\ last_event' = Event("press", button, "-")
          /\ requests' = <<>>
          /\ UNCHANGED <<visible, blocked>>
  /\ UNCHANGED <<button_vars, groups, peek_enabled, anim_time, anim_progress, hover_win_id,
                 selected_index, node_positions, flat_windows, peek_timer,
                 pending_peek_id, hover_left>>

\* a press handler that closes only after an activation
mousePressEvent_NoElse(button, outcome) ==
  /\ ~blocked
  /\ visible
  /\ IF button = "LeftButton" /\ Truthy(hover_win_id)
     THEN /\ ActivateAndClose(outcome)
          /\ last_event' = Event("press", button, outcome)
     ELSE /\ last_event' = Event("press", button, "-")
          /\ requests' = <<>>
          /\ UNCHANGED <<visible, blocked>>
  /\ UNCHANGED <<button_vars, groups, peek_enabled, anim_time, anim_progress, hover_win_id,
                 selected_index, node_positions, flat_windows, peek_timer,
                 pending_peek_id, hover_left>>

\* WindowRing.mousePressEvent
mousePressEvent(button, outcome) ==
  /\ ~blocked
  /\ visible
  /\ IF button = "LeftButton"
     THEN IF Truthy(hover_win_id)
          THEN /\ ActivateAndClose(outcome)
               /\ last_event' = Event("press", button, outcome)
          ELSE /\ close
               /\ last_event' = Event("press", button, "-")
               /\ requests' = <<>>
               /\ UNCHANGED blocked
     ELSE /\ last_event' = Event("press", button, "-")
          /\ requests' = <<>>
          /\ UNCHANGED <<visible, blocked>>
  /\ UNCHANGED <<button_vars, groups, peek_enabled, anim_time, anim_progress, hover_win_id,
                 selected_index, node_positions, flat_windows, peek_timer,
                 pending_peek_id, hover_left>>

\* navigation that stops at the ends instead of wrapping
Navigate_NoWrap(step) ==
  IF flat_windows # <<>>
  THEN LET to == selected_index + step
           idx == IF to < 0 THEN 0
                  ELSE IF to >= Len(flat_windows) THEN Len(flat_windows) - 1
                  ELSE to
       IN  /\ selected_index' = idx
           /\ hover_win_id' = flat_windows[idx + 1].id
           /\ hover_left' = (hover_left \/
                             (peek_timer /\ flat_windows[idx + 1].id # pending_peek_id))
           /\ UNCHANGED <<peek_timer, pending_peek_id>>
  ELSE UNCHANGED <<selected_index, hover_win_id, hover_left, peek_timer,
                   pending_peek_id>>

\* navigation that starts the peek timer as the pointer hover does
Navigate_Peeks(step) ==
  IF flat_windows # <<>>
  THEN LET idx == (selected_index + step) % Len(flat_windows)
       IN  /\ selected_index' = idx
           /\ hover_win_id' = flat_windows[idx + 1].id
           /\ DelayedPeek(flat_windows[idx + 1].id)
  ELSE UNCHANGED <<selected_index, hover_win_id, hover_left, peek_timer,
                   pending_peek_id>>

\* the two navigation branches of keyPressEvent, step = 1 or -1; neither
\* touches self.peek_timer
Navigate(step) ==
  IF flat_windows # <<>>
  THEN LET idx == (selected_index + step) % Len(flat_windows)
       IN  /\ selected_index' = idx
           /\ hover_win_id' = flat_windows[idx + 1].id
           /\ hover_left' = (hover_left \/
                             (peek_timer /\ flat_windows[idx + 1].id # pending_peek_id))
           /\ UNCHANGED <<peek_timer, pending_peek_id>>
  ELSE UNCHANGED <<selected_index, hover_win_id, hover_left, peek_timer,
                   pending_peek_id>>

\* a key handler whose confirm keys close the ring when nothing is hovered,
\* as a press does
keyPressEvent_ConfirmCloses(key, outcome) ==
  /\ ~blocked
  /\ visible
  /\ IF key = "Key_Escape"
     THEN /\ close
          /\ last_event' = Event("key", key, "-")
          /\ requests' = <<>>
          /\ UNCHANGED <<hover_win_id, selected_index, hover_left, blocked,
                         peek_timer, pending_peek_id>>
     ELSE IF KEYBOARD_NAV /\ key \in NextKeys
     THEN /\ Navigate(1)
          /\ last_event' = Event("key", key, "-")
          /\ requests' = <<>>
          /\ UNCHANGED <<visible, blocked>>
     ELSE IF KEYBOARD_NAV /\ key \in PrevKeys
     THEN /\ Navigate(-1)
          /\ last_event' = Event("key", key, "-")
          /\ requests' = <<>>
          /\ UNCHANGED <<visible, blocked>>
     ELSE IF key \in ConfirmKeys /\ Truthy(hover_win_id)
     THEN /\ ActivateAndClose(outcome)
          /\ last_event' = Event("key", key, outcome)
          /\ UNCHANGED <<hover_win_id, selected_index, hover_left, peek_timer,
                         pending_peek_id>>
     ELSE IF key \in ConfirmKeys
     THEN /\ close
          /\ last_event' = Event("key", key, "-")
          /\ requests' = <<>>
          /\ UNCHANGED <<hover_win_id, selected_index, hover_left, blocked,
                         peek_timer, pending_peek_id>>
     ELSE /\ last_event' = Event("key", key, "-")
          /\ requests' = <<>>
          /\ UNCHANGED <<hover_win_id, selected_index, hover_left, visible,
                         blocked, peek_timer, pending_peek_id>>
  /\ UNCHANGED <<button_vars, groups, peek_enabled, anim_time, anim_progress,
                 node_positions, flat_windows>>

\* WindowRing.keyPressEvent
keyPressEvent(key, outcome) ==
  /\ ~blocked
  /\ visible
  /\ IF key = "Key_Escape"
     THEN /\ close
          /\ last_event' = Event("key", key, "-")
          /\ requests' = <<>>
          /\ UNCHANGED <<hover_win_id, selected_index, hover_left, blocked,
                         peek_timer, pending_peek_id>>
     ELSE IF KEYBOARD_NAV /\ key \in NextKeys
     THEN /\ Navigate(1)
          /\ last_event' = Event("key", key, "-")
          /\ requests' = <<>>
          /\ UNCHANGED <<visible, blocked>>
     ELSE IF KEYBOARD_NAV /\ key \in PrevKeys
     THEN /\ Navigate(-1)
          /\ last_event' = Event("key", key, "-")
          /\ requests' = <<>>
          /\ UNCHANGED <<visible, blocked>>
     ELSE IF key \in ConfirmKeys /\ Truthy(hover_win_id)
     THEN /\ ActivateAndClose(outcome)
          /\ last_event' = Event("key", key, outcome)
          /\ UNCHANGED <<hover_win_id, selected_index, hover_left, peek_timer,
                         pending_peek_id>>
     ELSE /\ last_event' = Event("key", key, "-")
          /\ requests' = <<>>
          /\ UNCHANGED <<hover_win_id, selected_index, hover_left, visible,
                         blocked, peek_timer, pending_peek_id>>
  /\ UNCHANGED <<button_vars, groups, peek_enabled, anim_time, anim_progress,
                 node_positions, flat_windows>>

MouseMove == \E pos \in PointerPositions : mouseMoveEvent(pos)

PeekTimeout ==
  \E outcome \in (IF Truthy(pending_peek_id) THEN PeekOutcomes ELSE {"-"}) :
    _do_peek(outcome)

\* the outcomes of the subprocess.run a handler reaches; "-" when it makes none
PressOutcomes(button) ==
  IF button = "LeftButton" /\ Truthy(hover_win_id) THEN ActivateOutcomes ELSE {"-"}

KeyOutcomes(key) ==
  IF key \in ConfirmKeys /\ Truthy(hover_win_id) THEN ActivateOutcomes ELSE {"-"}

MousePress ==
  \E button \in Buttons : \E outcome \in PressOutcomes(button) :
    mousePressEvent(button, outcome)

KeyPress ==
  \E key \in Keys : \E outcome \in KeyOutcomes(key) : keyPressEvent(key, outcome)

Next ==
  \/ AnimTick
  \/ paintEvent
  \/ MouseMove
  \/ PeekTimeout
  \/ MousePress
  \/ KeyPress

Spec == Init /\ [][Next]_vars

\* ------------------------------------------------------ the floating button
\* what subprocess.run returns to get_windows
ListingResult(call) == [kind |-> call.kind, stdout |-> Stdout(call.lines)]

\* a show_ring without the  if not wins: return
show_ring_OpensEmpty ==
  /\ wmctrl_lx # NoCall
  /\ ~visible
  /\ wins' = get_windows(ListingResult(wmctrl_lx))
  /\ last_event' = Event("click", "-", wmctrl_lx.kind)
  /\ groups' = Groups(wins')
  /\ anim_time' = 0
  /\ anim_progress' = 0
  /\ hover_win_id' = None
  /\ selected_index' = -1
  /\ node_positions' = <<>>
  /\ flat_windows' = <<>>
  /\ peek_timer' = FALSE
  /\ pending_peek_id' = None
  /\ visible' = TRUE
  /\ blocked' = FALSE
  /\ requests' = <<>>
  /\ hover_left' = FALSE
  /\ UNCHANGED <<wmctrl_lx, app_name, app_keys, peek_enabled>>

\* FloatingButton.show_ring, called by a click on the button: get_windows,
\* then WindowRing.__init__ and show() unless the list is empty
show_ring ==
  /\ wmctrl_lx # NoCall
  /\ ~visible
  /\ wins' = get_windows(ListingResult(wmctrl_lx))
  /\ last_event' = Event("click", "-", wmctrl_lx.kind)
  /\ IF wins' = <<>>
     THEN UNCHANGED <<ring_vars, hover_left>>
     ELSE /\ groups' = Groups(wins')
          /\ anim_time' = 0
          /\ anim_progress' = 0
          /\ hover_win_id' = None
          /\ selected_index' = -1
          /\ node_positions' = <<>>
          /\ flat_windows' = <<>>
          /\ peek_timer' = FALSE
          /\ pending_peek_id' = None
          /\ visible' = TRUE
          /\ blocked' = FALSE
          /\ requests' = <<>>
          /\ hover_left' = FALSE
  /\ UNCHANGED <<wmctrl_lx, app_name, app_keys, peek_enabled>>

\* one more application of _normalize_app_name: to app_name first, then to
\* what the application before returned
Normalize ==
  /\ app_name # <<>>
  /\ Len(app_keys) < MaxPasses
  /\ app_keys' = Append(app_keys,
                        _normalize_app_name(IF app_keys = <<>> THEN app_name
                                            ELSE app_keys[Len(app_keys)]))
  /\ UNCHANGED <<wmctrl_lx, wins, app_name, ring_vars, peek_enabled,
                 last_event, hover_left>>

\* the button before any ring exists, with either the listing its click will
\* get or a name for the normalizer
InitButton ==
  /\ \/ wmctrl_lx \in ListingCalls /\ app_name = <<>>
     \/ wmctrl_lx = NoCall /\ app_name \in RawNames
  /\ wins = <<>>
  /\ app_keys = <<>>
  /\ groups = EmptyGroups
  /\ peek_enabled = TRUE
  /\ anim_time = 0
  /\ anim_progress = 0
  /\ hover_win_id = None
  /\ selected_index = -1
  /\ node_positions = <<>>
  /\ flat_windows = <<>>
  /\ peek_timer = FALSE
  /\ pending_peek_id = None
  /\ visible = FALSE
  /\ blocked = FALSE
  /\ requests = <<>>
  /\ last_event = Event("init", "-", "-")
  /\ hover_left = FALSE

NextButton ==
  \/ show_ring
  \/ Normalize

SpecButton == InitButton /\ [][NextButton]_vars

\* ==================================================================== claims

\* C1: a peek armed for a window by a pointer hover is never issued once the
\* hover has since moved away from that window, to another window or to
\* none, by a pointer move or by a navigation key.
C1_NoPeekAfterHoverLeft ==
  [][(last_event'.type = "timeout" /\ requests' # <<>>) => ~hover_left]_vars

\* C2: once the ring is closed, the peek timer and the animation clock being
\* stopped, no later step issues a request or changes hoveredId,
\* selectedIndex, pendingPeekId or the animation progress.
C2_CloseCancelsEverything ==
  [][~visible => /\ requests' = <<>>
                 /\ hover_win_id' = hover_win_id
                 /\ selected_index' = selected_index
                 /\ pending_peek_id' = pending_peek_id
                 /\ anim_progress' = anim_progress]_vars

\* C3: after Escape, pressed in whatever interaction state, the ring is
\* closed and the key press has issued no request.
C3_EscapeClosesWithoutActivation ==
  (last_event.type = "key" /\ last_event.arg = "Key_Escape")
    => (~visible /\ requests = <<>>)

\* C3 witness: Escape pressed with a window hovered, the peek timer armed and
\* the entrance animation still running.
C3_Witness ==
  /\ last_event.type = "key" /\ last_event.arg = "Key_Escape"
  /\ ~visible
  /\ hover_win_id # None
  /\ peek_timer
  /\ anim_progress < ProgDen

\* C4: a confirm key or a (left-button) pointer press received while
\* hoveredId is set has issued exactly one activation request, for the
\* hovered window, and has left the ring closed.
C4_ConfirmActivatesThenCloses ==
  (/\ \/ last_event.type = "press" /\ last_event.arg = "LeftButton"
      \/ last_event.type = "key" /\ last_event.arg \in ConfirmKeys
   /\ Truthy(hover_win_id))
    => (requests = <<Request("activate", hover_win_id)>> /\ ~visible)

\* C5 as stated: any pointer press received while hoveredId is unset has
\* closed the ring and issued no request.
C5_PressUnsetCloses ==
  (last_event.type = "press" /\ ~Truthy(hover_win_id))
    => (~visible /\ requests = <<>>)

\* C5: a left-button pointer press received while hoveredId is unset has
\* closed the ring and issued no request; a press of another button leaves
\* the ring open and issues no request either.
C5_LeftPressUnsetCloses ==
  (last_event.type = "press" /\ ~Truthy(hover_win_id))
    => /\ requests = <<>>
       /\ last_event.arg = "LeftButton" => ~visible
       /\ last_event.arg # "LeftButton" => visible

\* C5 witness: the ring closed by a left press on empty space.
C5_Witness ==
  /\ last_event.type = "press" /\ last_event.arg = "LeftButton"
  /\ hover_win_id = None
  /\ node_positions # <<>>
  /\ ~visible

\* C6: with N >= 1 flattened entries a forward key moves selectedIndex s to
\* (s + 1) mod N and a backward key to (s - 1) mod N, a value in 0..N-1 (0
\* after N-1, N-1 after 0), and hoveredId becomes the id of that entry; with
\* no flattened entries the navigation keys change nothing.
C6_NavigationWraps ==
  [][(last_event'.type = "key" /\ last_event'.arg \in NextKeys \cup PrevKeys) =>
       LET N == Len(flat_windows)
           step == IF last_event'.arg \in NextKeys THEN 1 ELSE -1
           to == selected_index + step
       IN  IF N = 0
           THEN UNCHANGED <<selected_index, hover_win_id>>
           ELSE /\ selected_index' \in 0..(N - 1)
                /\ \E q \in -2..1 : to = q * N + selected_index'
                /\ (step = 1 /\ selected_index = N - 1) => selected_index' = 0
                /\ (step = -1 /\ selected_index = 0) => selected_index' = N - 1
                /\ hover_win_id' = flat_windows[selected_index' + 1].id]_vars

\* C6 witness: a backward key has wrapped from index 0 to the last of at
\* least two entries (the only index a backward key reaches N-1 from).
C6_Witness ==
  /\ last_event.type = "key" /\ last_event.arg \in PrevKeys
  /\ Len(flat_windows) >= 2
  /\ selected_index = Len(flat_windows) - 1
  /\ hover_win_id = flat_windows[Len(flat_windows)].id

\* C7: whatever is hovered or selected when the layout is rebuilt, the node a
\* pointer position hits is the first one whose center is nearer than the
\* base radius plus 20.
C7_HitRegionIsBaseRadius ==
  [][last_event'.type = "paint" =>
       \A pos \in PointerPositions :
         HitIndex(node_positions', pos)
           = HitIndex(Layout(groups, anim_progress, None, -1), pos)]_vars

\* C8: after a pointer move that lies inside the hit region of one or more
\* nodes, the hovered and selected node is the one of smallest flattened index
\* among them.
C8_FirstHitWins ==
  last_event.type = "move" =>
    LET hits == {idx \in 0..(Len(node_positions) - 1) :
                   NodeHit(node_positions[idx + 1], last_event.arg)}
    IN  hits # {} =>
          /\ selected_index \in hits
          /\ \A other \in hits : selected_index <= other
          /\ hover_win_id = node_positions[selected_index + 1].win.id
          /\ flat_windows[selected_index + 1].id = hover_win_id

\* C8 witness: the pointer lies inside the hit regions of two nodes and the
\* first is hovered.
C8_Witness ==
  /\ last_event.type = "move"
  /\ Cardinality({idx \in 0..(Len(node_positions) - 1) :
                    NodeHit(node_positions[idx + 1], last_event.arg)}) >= 2
  /\ selected_index = 0
  /\ hover_win_id = node_positions[1].win.id

\* C9: a pointer move whose hit differs from hoveredId sets hoveredId and
\* selectedIndex to the hit (none and -1 when nothing is hit) and leaves the
\* peek timer armed exactly when the new hover is a window and peeking is
\* enabled, then pending for the new hoveredId; with peeking disabled the
\* timer is never armed and no peek request is issued.
C9_HoverChangeRearmsPeek ==
  [][/\ last_event'.type = "move" =>
          LET hit == HitIndex(node_positions, last_event'.arg)
              hit_id == IF hit = -1 THEN None ELSE node_positions[hit + 1].win.id
          IN  hit_id # hover_win_id =>
                /\ hover_win_id' = hit_id
                /\ selected_index' = hit
                /\ peek_timer' = (hit_id # None /\ peek_enabled)
                /\ peek_timer' => pending_peek_id' = hover_win_id'
                /\ ~hover_left'
     /\ ~peek_enabled' =>
          /\ ~peek_timer'
          /\ \A r \in 1..Len(requests') : requests'[r].cmd # "peek"]_vars

\* C9 witness: the pointer has moved onto the second window and the timer is
\* armed for it.
C9_Witness ==
  /\ last_event.type = "move"
  /\ peek_enabled
  /\ peek_timer
  /\ hover_win_id # None
  /\ pending_peek_id = hover_win_id
  /\ selected_index = 1

\* C10: a navigation key leaves the peek timer as it was, so that as long as
\* no pointer hover has armed it (pendingPeekId still none) the timer is not
\* armed and no peek request is issued.
C10_KeysNeverArmPeek ==
  [][/\ (last_event'.type = "key" /\ last_event'.arg \in NextKeys \cup PrevKeys) =>
          UNCHANGED <<peek_timer, pending_peek_id>>
     /\ pending_peek_id' = None =>
          /\ ~peek_timer'
          /\ \A r \in 1..Len(requests') : requests'[r].cmd # "peek"]_vars

\* C10 witness: a navigation key has selected a window while peeking is
\* enabled, and no timer is armed.
C10_Witness ==
  /\ last_event.type = "key" /\ last_event.arg \in NextKeys \cup PrevKeys
  /\ peek_enabled
  /\ hover_win_id # None
  /\ pending_peek_id = None
  /\ ~peek_timer

\* C11: after an external call that failed (raised, timed out, did not
\* return) the event thread is not left blocked, and a ring that is still
\* shown can be closed with Escape.
C11_FailureDoesNotBlock ==
  (last_event.call \in {"raise", "hang"})
    => /\ ~blocked
       /\ visible => ENABLED keyPressEvent("Key_Escape", "-")

C13_FlattenedOrderExample132 ==
  /\ Len(node_positions) = Len(flat_windows)
  /\ \A f \in 1..Len(flat_windows) : node_positions[f].win = flat_windows[f]
  /\ flat_windows # <<>> =>
       /\ Len(flat_windows) = Len(wins)
       /\ \A i \in 1..Len(wins) :
            Cardinality({f \in 1..Len(flat_windows) : flat_windows[f] = wins[i]}) = 1
       /\ \A p, q \in 1..Len(flat_windows) :
            p < q =>
              LET kp == _normalize_app_name(flat_windows[p].app)
                  kq == _normalize_app_name(flat_windows[q].app)
              IN  \/ StrLess(kp, kq)
                  \/ /\ kp = kq
                     /\ \E a, b \in 1..Len(wins) :
                          a < b /\ wins[a] = flat_windows[p] /\ wins[b] = flat_windows[q]
       /\ wins = ExampleSnapshot =>
            [f \in 1..Len(flat_windows) |-> flat_windows[f].id]
              = <<WinIds[1], WinIds[3], WinIds[2]>>

\* C13: the same, with the scenario's windows 1:Firefox, 2:Brave, 3:Firefox
\* flattened to [2, 1, 3] (group "Brave" before group "Firefox").
C13_FlattenedOrderIsStable ==
  /\ Len(node_positions) = Len(flat_windows)
  /\ \A f \in 1..Len(flat_windows) : node_positions[f].win = flat_windows[f]
  /\ flat_windows # <<>> =>
       /\ Len(flat_windows) = Len(wins)
       /\ \A i \in 1..Len(wins) :
            Cardinality({f \in 1..Len(flat_windows) : flat_windows[f] = wins[i]}) = 1
       /\ \A p, q \in 1..Len(flat_windows) :
            p < q =>
              LET kp == _normalize_app_name(flat_windows[p].app)
                  kq == _normalize_app_name(flat_windows[q].app)
              IN  \/ StrLess(kp, kq)
                  \/ /\ kp = kq
                     /\ \E a, b \in 1..Len(wins) :
                          a < b /\ wins[a] = flat_windows[p] /\ wins[b] = flat_windows[q]
       /\ wins = ExampleSnapshot =>
            [f \in 1..Len(flat_windows) |-> flat_windows[f].id]
              = <<WinIds[2], WinIds[1], WinIds[3]>>

\* C13 witness: the scenario's ring, its layout recomputed at full progress
\* after a key has moved the selection and the pointer the hover.
C13_Witness ==
  /\ wins = ExampleSnapshot
  /\ [f \in 1..Len(flat_windows) |-> flat_windows[f].id]
       = <<WinIds[2], WinIds[1], WinIds[3]>>
  /\ last_event.type = "paint"
  /\ hover_win_id = WinIds[1]
  /\ selected_index = 1
  /\ peek_timer
  /\ anim_progress = ProgDen

\* C14: every further application of the normalizer returns what the first
\* application returned.
C14_NormalizeIsIdempotent ==
  \A i \in 2..Len(app_keys) : app_keys[i] = app_keys[1]

\* C14 witness: a name the normalizer changes, normalized three times.
C14_Witness ==
  /\ Len(app_keys) = 3
  /\ app_keys[1] # app_name
  /\ app_keys[3] = app_keys[1]

\* C15 as stated: the key of a name is 'Brave' if its lower case contains
\* 'brave', else 'Firefox' for 'firefox', else 'Chrome' for 'chrome', else
\* 'Code' for 'code', else 'Terminal' for 'terminal', 'konsole' or
\* 'qterminal', else the name itself.
C15_RulesCodeOnly ==
  app_keys # <<>> =>
    LET low == Lower(app_name)
    IN  app_keys[1] =
          IF Contains(low, S_brave) THEN S_Brave
          ELSE IF Contains(low, S_firefox) THEN S_Firefox
          ELSE IF Contains(low, S_chrome) THEN S_Chrome
          ELSE IF Contains(low, S_code) THEN S_Code
          ELSE IF \E x \in {S_terminal, S_konsole, S_qterminal} : Contains(low, x)
               THEN S_Terminal
          ELSE app_name

\* C15: the same, with 'Code' for a name containing 'code' or 'vscodium'.
C15_RulesInOrder ==
  app_keys # <<>> =>
    LET low == Lower(app_name)
    IN  app_keys[1] =
          IF Contains(low, S_brave) THEN S_Brave
          ELSE IF Contains(low, S_firefox) THEN S_Firefox
          ELSE IF Contains(low, S_chrome) THEN S_Chrome
          ELSE IF Contains(low, S_code) \/ Contains(low, S_vscodium) THEN S_Code
          ELSE IF \E x \in {S_terminal, S_konsole, S_qterminal} : Contains(low, x)
               THEN S_Terminal
          ELSE app_name

\* C15 witness: a name that is of the browser family only through 'edge'
\* and falls through to the rule for the editors.
C15_Witness ==
  /\ app_name = Capitalize(JoinDash(<<S_edge, S_vscodium>>))
  /\ app_keys # <<>>
  /\ app_keys[1] = S_Code

\* C16: a step after which the listing has given no window, or whose
\* listing call raises or times out, changes nothing of the ring; and a
\* ring is shown only with a non-empty list of windows.
C16_EmptyListingIsNoOp ==
  [][/\ (wmctrl_lx.kind \in {"raise", "timeout"} \/ wins' = <<>>)
          => UNCHANGED ring_vars
     /\ visible' => (wins' # <<>> /\ DOMAIN groups' # {})]_vars

\* C16 witness: the button has been clicked, the listing call has timed
\* out, and there is no ring.
C16_Witness ==
  /\ last_event.type = "click"
  /\ wmctrl_lx.kind = "timeout"
  /\ wins = <<>>
  /\ ~visible
  /\ groups = EmptyGroups

\* C17: after a click whose listing call returned, taking away any line
\* that has fewer than five fields (so no title), or a class or a title of
\* the denylists, gives the same list of windows; and every window of the
\* list has an id, an app and a non-empty title.
C17_BadEntriesSkipped ==
  (last_event.type = "click" /\ wmctrl_lx.kind = "ok") =>
    LET lines == wmctrl_lx.lines
        IsBad(line) ==
          LET parts == SplitNone(line, 4)
          IN  \/ Len(parts) < 5
              \/ \E ign \in ignore_classes :
                   Contains(Lower(SplitOn(parts[3], 46)[1]), ign)
              \/ \E ign \in ignore_titles : Contains(Lower(parts[5]), ign)
        Without(i) == SubSeq(lines, 1, i - 1) \o SubSeq(lines, i + 1, Len(lines))
    IN  /\ \A i \in 1..Len(lines) :
             IsBad(lines[i]) =>
               get_windows([kind |-> "ok", stdout |-> Stdout(Without(i))]) = wins
        /\ \A j \in 1..Len(wins) :
             /\ DOMAIN wins[j] = {"id", "app", "title"}
             /\ wins[j].id # <<>>
             /\ wins[j].title # <<>>
             /\ ~IsSpace(wins[j].title[1])

\* C17 witness: a listing of three lines, the second without a title, has
\* given the two windows around it.
C17_Witness ==
  /\ last_event.type = "click"
  /\ Len(wmctrl_lx.lines) = 3
  /\ wmctrl_lx.lines[2] = Line_no_title
  /\ Len(wins) = 2
  /\ visible

\* C18: as long as the ring is shown and the progress is below 1.0 the
\* animation clock can still tick (so that the progress, which starts at 0,
\* stays in [0, 1] and never decreases, goes on to reach 1.0).
C18_ProgressReachesOne ==
  /\ anim_progress \in 0..ProgDen
  /\ (visible /\ anim_progress < ProgDen) => ENABLED AnimTick

\* C19: selectedIndex is -1 exactly when hoveredId is none, and otherwise an
\* index of the flattened sequence whose entry has the id hoveredId.
C19_HoverMatchesSelection ==
  /\ (selected_index = -1) <=> (hover_win_id = None)
  /\ selected_index # -1 =>
       /\ selected_index \in 0..(Len(flat_windows) - 1)
       /\ flat_windows[selected_index + 1].id = hover_win_id

\* C19 witness: the pointer has moved from nothing onto the second window,
\* after the keys had moved the selection.
C19_Witness ==
  /\ last_event.type = "move"
  /\ selected_index = 1
  /\ hover_win_id = flat_windows[2].id
  /\ pending_peek_id = hover_win_id

\* C20: a peek request just issued by the timer targets the window that is
\* hovered at that moment.
C20_PeekTargetsHover ==
  (last_event.type = "timeout" /\ requests # <<>>)
    => requests[1].id = hover_win_id

\* C21: a pointer move that hits the window already hovered (or hits no
\* window while none is hovered) leaves hover_win_id, selected_index,
\* pending_peek_id and the peek timer as they are.
C21_SameHitChangesNothing ==
  [][(/\ last_event'.type = "move"
      /\ HitId(node_positions, last_event'.arg) = hover_win_id)
       => UNCHANGED <<hover_win_id, selected_index, pending_peek_id,
                      peek_timer>>]_vars

\* C21 witness: with peeking enabled, the pointer has moved within the node
\* of the hovered window after the timer armed on entering it had expired.
C21_Witness ==
  /\ last_event.type = "move"
  /\ peek_enabled
  /\ Truthy(hover_win_id)
  /\ HitId(node_positions, last_event.arg) = hover_win_id
  /\ pending_peek_id = hover_win_id
  /\ ~peek_timer

\* C22: every request the last handler has issued, a peek or an
\* activation, is for an id that is set and is the id of a window of the
\* snapshot the ring was opened with.
C22_RequestsTargetSnapshot ==
  \A r \in 1..Len(requests) :
    /\ Truthy(requests[r].id)
    /\ \E i \in 1..Len(wins) : wins[i].id = requests[r].id

\* C22 witness: a confirm key has issued the activation of the second
\* window of the snapshot.
C22_Witness ==
  /\ last_event.type = "key"
  /\ Len(wins) >= 2
  /\ requests = <<Request("activate", wins[2].id)>>

\* C23: a navigation key received while nothing is selected or hovered
\* and the layout has entries selects index 0 if it is a forward key and
\* the last index if it is a backward key.
C23_FirstKeySelectsEnd ==
  [][(/\ last_event'.type = "key"
      /\ visible /\ ~blocked
      /\ selected_index = -1
      /\ hover_win_id = None
      /\ flat_windows # <<>>)
       => /\ last_event'.arg \in NextKeys => selected_index' = 0
          /\ last_event'.arg \in PrevKeys
               => selected_index' = Len(flat_windows) - 1]_vars

\* C24: a Return or Space key received while nothing is hovered issues no
\* request, leaves the ring shown, and leaves hover_win_id, selected_index
\* and the peek timer as they are.
C24_ConfirmUnsetIsNoOp ==
  [][(/\ last_event'.type = "key"
      /\ last_event'.arg \in ConfirmKeys
      /\ visible /\ ~blocked
      /\ hover_win_id = None)
       => /\ requests' = <<>>
          /\ visible'
          /\ UNCHANGED <<hover_win_id, selected_index, peek_timer,
                         pending_peek_id>>]_vars

\* C24 witness: a confirm key has been received on a ring that is laid out
\* at full progress with nothing hovered; the ring is still shown.
C24_Witness ==
  /\ last_event.type = "key"
  /\ last_event.arg \in ConfirmKeys
  /\ hover_win_id = None
  /\ selected_index = -1
  /\ flat_windows # <<>>
  /\ anim_progress = ProgDen
  /\ visible

====
